---------------------------- MODULE Spec2Model ----------------------------
(***************************************************************************)
(* Round logic of federated GAN training, gans/gan_training_tf_fns.py:     *)
(* client_computation, server_initial_state, server_computation and the    *)
(* two training-step factories.                                            *)
(*                                                                         *)
(* A tensor is a sequence of float values (its shape is its length), a     *)
(* weight list is a sequence of tensors, a dataset is the sequence of its  *)
(* batches, a batch being its leading dimension.  A float is a record:     *)
(* finite (an integer stands for the value), NaN, +Inf or -Inf.  The       *)
(* result of an optimizer's minimize on a loss is an input of the step     *)
(* (the loss and the network are collaborators outside this file).         *)
(* ServerState objects and their counters dictionaries live on a heap, so  *)
(* that copying and aliasing are visible.                                  *)
(***************************************************************************)
EXTENDS Integers, Sequences, FiniteSets, TLC

\* ------------------------------------------------------------- bounds
MaxExamples == 3   \* examples in a dataset, and in a counter of examples
MaxRounds == 2     \* calls of server_computation that return a state

\* ------------------------------------------------------------- floats
F(n) == [k |-> "fin", v |-> n]
NaN == [k |-> "nan", v |-> 0]
PInf == [k |-> "inf", v |-> 1]
NInf == [k |-> "inf", v |-> -1]

IsFinite(x) == x.k = "fin"

Sgn(n) == IF n > 0 THEN 1 ELSE IF n < 0 THEN -1 ELSE 0

FNeg(x) == IF x.k = "nan" THEN NaN ELSE [k |-> x.k, v |-> -x.v]

FAdd(a, b) ==
  IF a.k = "nan" \/ b.k = "nan" THEN NaN
  ELSE IF a.k = "fin" /\ b.k = "fin" THEN F(a.v + b.v)
  ELSE IF a.k = "inf" /\ b.k = "inf" THEN (IF a.v = b.v THEN a ELSE NaN)
  ELSE IF a.k = "inf" THEN a ELSE b

\* tf.subtract on one element
FSub(a, b) == FAdd(a, FNeg(b))

FMul(a, b) ==
  IF a.k = "nan" \/ b.k = "nan" THEN NaN
  ELSE IF a.k = "fin" /\ b.k = "fin" THEN F(a.v * b.v)
  ELSE IF Sgn(a.v) * Sgn(b.v) = 0 THEN NaN
  ELSE [k |-> "inf", v |-> Sgn(a.v) * Sgn(b.v)]

\* ------------------------------------------------------------- tensors
Shape(t) == Len(t)
Shapes(ws) == [i \in 1..Len(ws) |-> Shape(ws[i])]
ZerosLike(t) == [j \in 1..Len(t) |-> F(0)]
\* element j of a tensor broadcast to a longer shape
At(t, j) == IF Len(t) = 1 THEN t[1] ELSE t[j]
Max(a, b) == IF a >= b THEN a ELSE b
\* tf.subtract and tf.add broadcast their arguments
TSub(a, b) == [j \in 1..Max(Len(a), Len(b)) |-> FSub(At(a, j), At(b, j))]
TAdd(a, b) == [j \in 1..Max(Len(a), Len(b)) |-> FAdd(At(a, j), At(b, j))]
TScale(c, t) == [j \in 1..Len(t) |-> FMul(c, t[j])]
AllFinite(ws) == \A i \in 1..Len(ws) : \A j \in 1..Len(ws[i]) : IsFinite(ws[i][j])

Min(a, b) == IF a <= b THEN a ELSE b

RECURSIVE SumSeq(_)
SumSeq(s) == IF s = << >> THEN 0 ELSE Head(s) + SumSeq(Tail(s))

\* ------------------------------------------------------------- models
\* generator.weights = [trainable, non-trainable]; the same for the
\* discriminator.  trainable_variables are the indices below.
GenTrainable == {1}
DiscTrainable == {1}

InitGenerator == << <<F(0)>>, <<F(1)>> >>
InitDiscriminator == << <<F(0), F(0)>>, <<F(1)>> >>

\* what one minimize can leave in the trainable variables
GenStepOutcomes == [GenTrainable -> { <<F(2)>> }]
DiscStepOutcomes ==
  [DiscTrainable -> { <<F(1), F(2)>>, <<NaN, F(1)>>, <<F(0), PInf>> }]

\* a dataset: its batches, each of one example or more
Datasets ==
  { ds \in UNION { [1..n -> 1..MaxExamples] : n \in 0..MaxExamples } :
      SumSeq(ds) <= MaxExamples }

\* _weights(model): the values of the model's variables, in order
_weights(model) == [i \in 1..Len(model) |-> model[i]]

\* tf.nest.map_structure(lambda a, b: a.assign(b), model.weights, values)
assign_weights(model, values) == [i \in 1..Len(model) |-> values[i]]

\* optimizer.minimize(loss, var_list): only the variables of var_list move
minimize(model, var_list, outcome) ==
  [i \in 1..Len(model) |-> IF i \in var_list THEN outcome[i] ELSE model[i]]

\* the forward pass of a loss of gan_losses on the two networks: the loss
\* is a pure function of them and leaves their variables as they are
forward_pass(generator, discriminator) ==
  [generator |-> generator, discriminator |-> discriminator]


\* ------------------------------------------------------------- numeric safety
\* tensor_utils.zero_all_if_any_non_finite(structure): the structure, or
\* zeros of the same shapes when any element is NaN or Inf, and a 0/1 flag
zero_all_if_any_non_finite(structure) ==
  IF AllFinite(structure)
  THEN <<structure, 0>>
  ELSE <<[i \in 1..Len(structure) |-> ZerosLike(structure[i])], 1>>

\* ------------------------------------------------------------- training steps
\* train_discriminator_fn(generator, discriminator, generator_inputs,
\* real_data): one minimize on discriminator.trainable_variables; returns
\* tf.shape(real_data)[0].  A batch is its leading dimension.
train_discriminator_fn(generator, discriminator, generator_inputs, real_data, outcome) ==
  LET fp == forward_pass(generator, discriminator)
  IN [generator |-> fp.generator,
      discriminator |-> minimize(fp.discriminator, DiscTrainable, outcome),
      ret |-> real_data]

\* a generator step whose var_list is the discriminator's variables
train_generator_fn_on_discriminator(generator, discriminator, generator_inputs, outcome) ==
  [generator |-> generator,
   discriminator |-> [i \in 1..Len(discriminator) |->
                        IF i \in DiscTrainable
                        THEN [j \in 1..Len(discriminator[i]) |-> At(outcome[i], j)]
                        ELSE discriminator[i]],
   ret |-> generator_inputs]

\* train_generator_fn(generator, discriminator, generator_inputs): one
\* minimize on generator.trainable_variables; returns
\* tf.shape(generator_inputs)[0].
train_generator_fn(generator, discriminator, generator_inputs, outcome) ==
  LET fp == forward_pass(generator, discriminator)
  IN [generator |-> minimize(fp.generator, GenTrainable, outcome),
      discriminator |-> fp.discriminator,
      ret |-> generator_inputs]

\* ------------------------------------------------------------- client
FromServer(generator_weights, discriminator_weights) ==
  [generator_weights |-> generator_weights,
   discriminator_weights |-> discriminator_weights]

ClientOutput(discriminator_weights_delta, update_weight, counters) ==
  [discriminator_weights_delta |-> discriminator_weights_delta,
   update_weight |-> update_weight,
   counters |-> counters]

\* a zip that loses the last pair
DatasetZipDropLast(a, b) ==
  LET n == IF Len(a) <= Len(b) THEN Len(a) ELSE Len(b)
  IN [i \in 1..(IF n = 0 THEN 0 ELSE n - 1) |-> <<a[i], b[i]>>]

\* tf.data.Dataset.zip((a, b)): pairs by index, ends with the shorter one
RECURSIVE DatasetZip(_, _)
DatasetZip(a, b) ==
  IF a = << >> \/ b = << >> THEN << >>
  ELSE << <<Head(a), Head(b)>> >> \o DatasetZip(Tail(a), Tail(b))

\* the loop body without the reduction to the smaller batch size
client_loop_body_untruncated(st, pair, outcome) ==
  LET r == train_discriminator_fn(st.generator, st.discriminator,
                                  pair[1], pair[2], outcome)
  IN [generator |-> r.generator,
      discriminator |-> r.discriminator,
      num_examples |-> st.num_examples + r.ret,
      steps |-> st.steps + 1]

\* the body of the for loop of client_computation on one pair; st holds
\* the live variables, num_examples and the number of steps taken
client_loop_body(st, pair, outcome) ==
  LET gen_inputs0 == pair[1]
      real_data0 == pair[2]
      min_batch_size == Min(real_data0, gen_inputs0)
      real_data == Min(real_data0, min_batch_size)     \* real_data[0:min_batch_size]
      gen_inputs == Min(gen_inputs0, min_batch_size)   \* gen_inputs[0:min_batch_size]
      r == train_discriminator_fn(st.generator, st.discriminator,
                                  gen_inputs, real_data, outcome)
  IN [generator |-> r.generator,
      discriminator |-> r.discriminator,
      num_examples |-> st.num_examples + r.ret,
      steps |-> st.steps + 1]

RECURSIVE client_loop(_, _, _)
client_loop(st, pairs, outcomes) ==
  IF pairs = << >> THEN st
  ELSE client_loop(client_loop_body(st, Head(pairs), outcomes[st.steps + 1]),
                   Tail(pairs), outcomes)

\* the weight without the tf.cond on the flag
client_update_weight_unguarded(num_examples, has_non_finite_delta) == F(num_examples)

\* update_weight = tf.cond(tf.equal(has_non_finite_delta, 0), ...)
client_update_weight(num_examples, has_non_finite_delta) ==
  IF has_non_finite_delta = 0 THEN F(num_examples) ELSE F(0)

client_computation(gen_inputs_ds, real_data_ds, from_server, generator, discriminator, outcomes) ==
  LET g0 == assign_weights(generator, from_server.generator_weights)
      d0 == assign_weights(discriminator, from_server.discriminator_weights)
      gen_inputs_and_real_data == DatasetZip(gen_inputs_ds, real_data_ds)
      st == client_loop([generator |-> g0, discriminator |-> d0,
                         num_examples |-> 0, steps |-> 0],
                        gen_inputs_and_real_data, outcomes)
      raw_delta == [i \in 1..Len(st.discriminator) |->
                      TSub(st.discriminator[i], from_server.discriminator_weights[i])]
      z == zero_all_if_any_non_finite(raw_delta)
      weights_delta == z[1]
      has_non_finite_delta == z[2]
      update_weight == client_update_weight(st.num_examples, has_non_finite_delta)
  IN [output |-> ClientOutput(weights_delta, update_weight,
                   << <<"num_discriminator_train_examples", st.num_examples>> >>),
      generator |-> st.generator,
      discriminator |-> st.discriminator,
      steps |-> st.steps]

\* ------------------------------------------------------------- server state
\* A ServerState object; its counters attribute is a reference to a
\* dictionary of the heap.
ServerState(generator_weights, discriminator_weights, counters, aggregation_state) ==
  [generator_weights |-> generator_weights,
   discriminator_weights |-> discriminator_weights,
   counters |-> counters,
   aggregation_state |-> aggregation_state]

\* aggregation_state = attr.ib(default=()), new_aggregation_state=()
EmptyAggregationState == "()"

ObjIds == {1, 2}
DictIds == {1, 2}
NewObj(objs) == CHOOSE i \in ObjIds : i \notin DOMAIN objs
NewDict(dicts) == CHOOSE i \in DictIds : i \notin DOMAIN dicts

Put(f, k, v) == [x \in DOMAIN f \cup {k} |-> IF x = k THEN v ELSE f[x]]

\* server_initial_state(generator, discriminator), its dictionary being d
InitialCounters ==
  [key \in {"num_discriminator_train_examples",
            "num_generator_train_examples",
            "num_rounds"} |-> 0]

server_initial_state(generator, discriminator, d) ==
  ServerState(_weights(generator), _weights(discriminator), d, EmptyAggregationState)

\* attr.evolve(server_state): a new object that shares the dictionary
evolve_sharing_counters(objs, dicts, server_state) ==
  LET o == NewObj(objs)
  IN [objs |-> Put(objs, o, objs[server_state]), dicts |-> dicts, ref |-> o]

\* attr.evolve(server_state, counters=OrderedDict(server_state.counters)):
\* a new object whose counters is a new dictionary with the same items
evolve_with_counters_copy(objs, dicts, server_state) ==
  LET o == NewObj(objs)
      d == NewDict(dicts)
  IN [objs |-> Put(objs, o, [objs[server_state] EXCEPT !.counters = d]),
      dicts |-> Put(dicts, d, dicts[objs[server_state].counters]),
      ref |-> o]

\* tf.nest.assert_same_structure(delta, discriminator.weights): both are
\* flat lists, so the same number of entries; tensors are leaves
assert_same_structure(delta, weights) == Len(delta) = Len(weights)

\* the delta itself taken as the gradient
grads_and_vars_not_negated(delta, weights) ==
  [i \in 1..Len(weights) |-> <<delta[i], weights[i]>>]

\* grads_and_vars of server_computation: (-1.0 * x, v) for each entry
grads_and_vars(delta, weights) ==
  [i \in 1..Len(weights) |-> <<TScale(F(-1), delta[i]), weights[i]>>]

\* an update that broadcasts a gradient of another shape
sgd_shapes_unchecked(gv) == TRUE

\* apply_gradients of plain SGD with learning rate lr: a gradient of
\* another shape than its variable is rejected, else v := v - lr * g
sgd_shapes_ok(gv) == \A i \in 1..Len(gv) : Shape(gv[i][1]) = Shape(gv[i][2])

sgd_apply_gradients(lr, gv) ==
  [i \in 1..Len(gv) |-> TSub(gv[i][2], TScale(F(lr), gv[i][1]))]

\* d[k] = d.get(k, 0) + v
dict_iadd_or_create(d, k, v) ==
  [ok |-> TRUE, d |-> Put(d, k, (IF k \in DOMAIN d THEN d[k] ELSE 0) + v)]

\* d[k] += v on an OrderedDict: KeyError when k is not a key
dict_iadd(d, k, v) ==
  IF k \in DOMAIN d
  THEN [ok |-> TRUE, d |-> [d EXCEPT ![k] = d[k] + v]]
  ELSE [ok |-> FALSE, d |-> d]

\* for k, v in client_output.counters.items(): counters[k] += v
RECURSIVE add_client_counters(_, _)
add_client_counters(d, items) ==
  IF items = << >> THEN [ok |-> TRUE, d |-> d]
  ELSE LET r == dict_iadd(d, Head(items)[1], Head(items)[2])
       IN IF r.ok THEN add_client_counters(r.d, Tail(items)) ELSE r

\* for gen_inputs in gen_inputs_ds: gen_examples_this_round += step(...)
RECURSIVE server_loop(_, _, _)
server_loop(st, ds, outcomes) ==
  IF ds = << >> THEN st
  ELSE LET r == train_generator_fn(st.generator, st.discriminator, Head(ds),
                                   outcomes[st.steps + 1])
       IN server_loop([generator |-> r.generator,
                       discriminator |-> r.discriminator,
                       gen_examples_this_round |-> st.gen_examples_this_round + r.ret,
                       steps |-> st.steps + 1],
                      Tail(ds), outcomes)

\* the assignment of aggregation_state left out
keep_aggregation_state(obj, new_aggregation_state) == obj

\* server_state.aggregation_state = new_aggregation_state
set_aggregation_state(obj, new_aggregation_state) ==
  [obj EXCEPT !.aggregation_state = new_aggregation_state]

\* the end of the round counting batches instead of examples
finish_round_counting_batches(objs, dicts, ref, st) ==
  LET c == objs[ref].counters
  IN [ok |-> TRUE,
      dicts |-> [dicts EXCEPT ![c] =
                   [@ EXCEPT !["num_generator_train_examples"] = @ + st.steps,
                             !["num_rounds"] = @ + 1]],
      objs |-> [objs EXCEPT ![ref] =
                  [@ EXCEPT !.generator_weights = _weights(st.generator),
                            !.discriminator_weights = _weights(st.discriminator)]]]

\* the end of server_computation: the two counters, then the snapshot
finish_round(objs, dicts, ref, st) ==
  LET c == objs[ref].counters
      a == dict_iadd(dicts[c], "num_generator_train_examples", st.gen_examples_this_round)
      b == IF a.ok THEN dict_iadd(a.d, "num_rounds", 1) ELSE a
  IN [ok |-> b.ok,
      dicts |-> [dicts EXCEPT ![c] = b.d],
      objs |-> IF b.ok
               THEN [objs EXCEPT ![ref] =
                       [@ EXCEPT !.generator_weights = _weights(st.generator),
                                 !.discriminator_weights = _weights(st.discriminator)]]
               ELSE objs]

Raised(error, objs, dicts, generator, discriminator) ==
  [ok |-> FALSE, error |-> error, objs |-> objs, dicts |-> dicts, ret |-> 0,
   generator |-> generator, discriminator |-> discriminator,
   after_update |-> discriminator, gen_examples |-> 0]

server_computation(objs, dicts, server_state, gen_inputs_ds, client_output, generator, discriminator, lr, outcomes, new_aggregation_state) ==
  LET e == evolve_with_counters_copy(objs, dicts, server_state)
      g1 == assign_weights(generator, e.objs[e.ref].generator_weights)
      d1 == assign_weights(discriminator, e.objs[e.ref].discriminator_weights)
      delta == client_output.discriminator_weights_delta
  IN IF ~assert_same_structure(delta, d1)
     THEN Raised("ValueError", e.objs, e.dicts, g1, d1)
     ELSE
     LET gv == grads_and_vars(delta, d1)
     IN IF ~sgd_shapes_ok(gv)
        THEN Raised("ValueError", e.objs, e.dicts, g1, d1)
        ELSE
        LET d2 == sgd_apply_gradients(lr, gv)
            c == e.objs[e.ref].counters
            added == add_client_counters(e.dicts[c], client_output.counters)
            dicts2 == [e.dicts EXCEPT ![c] = added.d]
        IN IF ~added.ok
           THEN Raised("KeyError", e.objs, dicts2, g1, d2)
           ELSE
           LET objs3 == [e.objs EXCEPT ![e.ref] =
                           set_aggregation_state(@, new_aggregation_state)]
               st == server_loop([generator |-> g1, discriminator |-> d2,
                                  gen_examples_this_round |-> 0, steps |-> 0],
                                 gen_inputs_ds, outcomes)
               fin == finish_round(objs3, dicts2, e.ref, st)
           IN IF ~fin.ok
              THEN Raised("KeyError", fin.objs, fin.dicts, st.generator, st.discriminator)
              ELSE [ok |-> TRUE, error |-> "", objs |-> fin.objs, dicts |-> fin.dicts,
                    ret |-> e.ref,
                    generator |-> st.generator, discriminator |-> st.discriminator,
                    after_update |-> d2,
                    gen_examples |-> st.gen_examples_this_round]

\* ------------------------------------------------------------- the rounds
VARIABLES
  objs,          \* heap: the ServerState objects
  dicts,         \* heap: the counters dictionaries
  server_state,  \* the ServerState the caller holds
  rounds,        \* calls of server_computation that returned
  generator,     \* the live variables of the generator
  discriminator, \* the live variables of the discriminator
  pending,       \* the round's ClientOutput on its way to the server
  call           \* the call that has just returned, with its arguments

vars == <<objs, dicts, server_state, rounds, generator, discriminator, pending, call>>

Idle == [op |-> "idle"]

\* the value of a ServerState object, its dictionary read through
Value(os, ds, ref) ==
  [generator_weights |-> os[ref].generator_weights,
   discriminator_weights |-> os[ref].discriminator_weights,
   counters |-> ds[os[ref].counters],
   aggregation_state |-> os[ref].aggregation_state]

Init ==
  /\ objs = (1 :> server_initial_state(InitGenerator, InitDiscriminator, 1))
  /\ dicts = (1 :> InitialCounters)
  /\ server_state = 1
  /\ rounds = 0
  /\ generator = InitGenerator
  /\ discriminator = InitDiscriminator
  /\ pending = << >>
  /\ call = Idle

\* the sum, over the pairs the zip yields, of the smaller batch size
PairedExamples(gen_inputs_ds, real_data_ds) ==
  LET n == Min(Len(gen_inputs_ds), Len(real_data_ds))
      f[i \in 0..n] == IF i = 0 THEN 0
                       ELSE f[i - 1] + Min(gen_inputs_ds[i], real_data_ds[i])
  IN f[n]

\* one client runs client_computation on the broadcast of the caller's state
ClientComputation ==
  /\ call = Idle
  /\ pending = << >>
  /\ rounds < MaxRounds
  /\ \E gen_inputs_ds \in Datasets, real_data_ds \in Datasets :
       \E outcomes \in [1..Min(Len(gen_inputs_ds), Len(real_data_ds)) -> DiscStepOutcomes] :
         \E from_server \in {FromServer(objs[server_state].generator_weights,
                                        objs[server_state].discriminator_weights)} :
           \E r \in {client_computation(gen_inputs_ds, real_data_ds, from_server,
                                        generator, discriminator, outcomes)} :
             /\ dicts[objs[server_state].counters]["num_discriminator_train_examples"]
                  + PairedExamples(gen_inputs_ds, real_data_ds) <= MaxExamples
             /\ generator' = r.generator
             /\ discriminator' = r.discriminator
             /\ call' = [op |-> "client",
                         from_server |-> from_server,
                         output |-> r.output,
                         trained |-> r.discriminator,
                         steps |-> r.steps,
                         n_gen |-> Len(gen_inputs_ds),
                         n_real |-> Len(real_data_ds),
                         paired |-> PairedExamples(gen_inputs_ds, real_data_ds)]
  /\ UNCHANGED <<objs, dicts, server_state, rounds, pending>>

\* the client's output becomes the round's ClientOutput
Upload ==
  /\ call.op = "client"
  /\ pending' = <<call.output>>
  /\ call' = Idle
  /\ UNCHANGED <<objs, dicts, server_state, rounds, generator, discriminator>>

ZeroDelta == [i \in 1..Len(InitDiscriminator) |-> ZerosLike(InitDiscriminator[i])]

\* ClientOutputs an aggregation outside this file can hand to the server
AggregatedOutputs ==
  { ClientOutput(<< <<F(0), F(0)>> >>, F(1),
                 << <<"num_discriminator_train_examples", 1>> >>),
    ClientOutput(<< <<F(0)>>, <<F(0)>> >>, F(1),
                 << <<"num_discriminator_train_examples", 1>> >>),
    ClientOutput(ZeroDelta, F(1),
                 << <<"num_discriminator_train_examples", 1>>, <<"num_clients", 1>> >>),
    ClientOutput(ZeroDelta, F(1),
                 << <<"num_discriminator_train_examples", 1>>, <<"num_rounds", 1>> >>) }

LearningRates == {1, 2}
AggregationArgs == {"omitted", "dp_state"}

\* new_aggregation_state=() in the signature of server_computation
new_aggregation_state_of(arg) == IF arg = "omitted" THEN EmptyAggregationState ELSE arg

\* the ClientOutput of the round: the client's when one was uploaded
RoundOutputs == IF pending = << >> THEN AggregatedOutputs ELSE {pending[1]}

ExampleCounters == {"num_discriminator_train_examples", "num_generator_train_examples"}

ServerComputation ==
  /\ call = Idle
  /\ rounds < MaxRounds
  /\ \E client_output \in RoundOutputs,
        gen_inputs_ds \in Datasets, lr \in LearningRates, arg \in AggregationArgs :
       \E outcomes \in [1..Len(gen_inputs_ds) -> GenStepOutcomes] :
         \E r \in {server_computation(objs, dicts, server_state, gen_inputs_ds,
                                      client_output, generator, discriminator, lr,
                                      outcomes, new_aggregation_state_of(arg))} :
            /\ r.ok => \A key \in ExampleCounters :
                          r.dicts[r.objs[r.ret].counters][key] <= MaxExamples
            /\ objs' = r.objs
            /\ dicts' = r.dicts
            \* a call that raises while it is traced has run no assignment
            /\ \E eager \in (IF r.ok THEN {TRUE} ELSE BOOLEAN) :
                 /\ generator' = (IF eager THEN r.generator ELSE generator)
                 /\ discriminator' = (IF eager THEN r.discriminator ELSE discriminator)
            /\ call' = [op |-> "server",
                        ok |-> r.ok,
                        error |-> r.error,
                        ret |-> r.ret,
                        pre |-> Value(objs, dicts, server_state),
                        client_output |-> client_output,
                        lr |-> lr,
                        arg |-> arg,
                        gen_sum |-> SumSeq(gen_inputs_ds),
                        after_update |-> r.after_update]
  /\ pending' = << >>
  /\ UNCHANGED <<server_state, rounds>>

\* server_state = server_computation(server_state, ...): the caller takes
\* the returned state, or keeps its own when the call raised
NextRound ==
  /\ call.op = "server"
  /\ server_state' = (IF call.ok THEN call.ret ELSE server_state)
  /\ rounds' = (IF call.ok THEN rounds + 1 ELSE rounds)
  /\ objs' = [o \in {server_state'} |-> objs[o]]
  /\ dicts' = [d \in {objs[server_state'].counters} |-> dicts[d]]
  /\ call' = Idle
  /\ UNCHANGED <<generator, discriminator, pending>>

Next == ClientComputation \/ Upload \/ ServerComputation \/ NextRound

Spec == Init /\ [][Next]_vars

\* ------------------------------------------------------------- properties
ClientReturned == call.op = "client"
ServerCalled == call.op = "server"
ServerReturned == call.op = "server" /\ call.ok
ServerRaised == call.op = "server" /\ ~call.ok

\* the state the caller passed, as it is now, and the state returned
InputNow == Value(objs, dicts, server_state)
Returned == Value(objs, dicts, call.ret)

RECURSIVE ClientCount(_, _)
ClientCount(items, key) ==
  IF items = << >> THEN 0
  ELSE (IF Head(items)[1] = key THEN Head(items)[2] ELSE 0) + ClientCount(Tail(items), key)

ClientKeys(items) == {items[i][1] : i \in 1..Len(items)}

\* what server_computation itself adds to a counter in a round
RoundIncrement(key) ==
  IF key = "num_rounds" THEN 1
  ELSE IF key = "num_generator_train_examples" THEN call.gen_sum
  ELSE 0

SameStructure(delta, weights) == Shapes(delta) = Shapes(weights)

\* C1 as stated: a call that returns adds exactly 1 to num_rounds and
\* exactly the sum of the batch sizes of gen_inputs_ds to
\* num_generator_train_examples, for every client_output whose counter
\* keys are in the state's counters; so num_rounds is the number of calls.
C1_Original ==
  ServerReturned =>
    /\ Returned.counters["num_rounds"] = call.pre.counters["num_rounds"] + 1
    /\ Returned.counters["num_generator_train_examples"] =
         call.pre.counters["num_generator_train_examples"] + call.gen_sum
    /\ (call.pre.counters["num_rounds"] = rounds
          => Returned.counters["num_rounds"] = rounds + 1)

\* C1 amended: num_rounds grows by 1 and num_generator_train_examples by
\* the sum of the batch sizes, each plus what client_output.counters holds
\* under that key; when client_output.counters has neither key the growth
\* is exactly 1 and exactly the sum, and a state whose num_rounds is the
\* number of calls so far has the number of calls again after the call.
C1_RoundCounters ==
  ServerReturned =>
    /\ Returned.counters["num_rounds"] =
         call.pre.counters["num_rounds"] + 1
           + ClientCount(call.client_output.counters, "num_rounds")
    /\ Returned.counters["num_generator_train_examples"] =
         call.pre.counters["num_generator_train_examples"] + call.gen_sum
           + ClientCount(call.client_output.counters, "num_generator_train_examples")
    /\ (ClientKeys(call.client_output.counters)
          \cap {"num_rounds", "num_generator_train_examples"} = {}
        => /\ Returned.counters["num_rounds"] = call.pre.counters["num_rounds"] + 1
           /\ Returned.counters["num_generator_train_examples"] =
                call.pre.counters["num_generator_train_examples"] + call.gen_sum
           /\ (call.pre.counters["num_rounds"] = rounds
                 => Returned.counters["num_rounds"] = rounds + 1))

C1_Witness ==
  /\ ServerReturned
  /\ rounds = 1
  /\ call.pre.counters["num_rounds"] = 1
  /\ call.gen_sum > 1
  /\ Returned.counters["num_rounds"] = 2

\* the difference trained - from_server of the client's call
RawDelta ==
  [i \in 1..Len(call.trained) |->
     TSub(call.trained[i], call.from_server.discriminator_weights[i])]

ClientExamples == call.output.counters[1][2]

\* C2: client_computation returns; when the difference trained -
\* from_server has a NaN or Inf element the returned delta is zeros of the
\* same shapes and update_weight is 0.0, and otherwise the delta is the
\* difference itself and update_weight is float(num_examples).
C2_NonFiniteDelta ==
  ClientReturned =>
    IF AllFinite(RawDelta)
    THEN /\ call.output.discriminator_weights_delta = RawDelta
         /\ call.output.update_weight = F(ClientExamples)
    ELSE /\ Shapes(call.output.discriminator_weights_delta) = Shapes(RawDelta)
         /\ \A i \in 1..Len(RawDelta) : \A j \in 1..Len(RawDelta[i]) :
              call.output.discriminator_weights_delta[i][j] = F(0)
         /\ call.output.update_weight = F(0)

C2_Witness ==
  /\ ClientReturned
  /\ ~AllFinite(RawDelta)
  /\ ClientExamples > 0
  /\ call.output.update_weight = F(0)

\* C3: client_computation runs exactly min(N, M) discriminator steps on
\* datasets of N and M batches.
C3_StepsAreMin ==
  ClientReturned => call.steps = Min(call.n_gen, call.n_real)

C3_Witness ==
  /\ ClientReturned
  /\ call.n_gen > call.n_real
  /\ call.n_real > 0
  /\ call.steps = call.n_real

DeltaIsZero(delta) ==
  \A i \in 1..Len(delta) : \A j \in 1..Len(delta[i]) : delta[i][j] = F(0)

\* C4 as stated: with plain SGD as the server's optimizer, the update
\* step leaves every discriminator weight at its old value plus the delta.
C4_Original ==
  ServerReturned =>
    \A i \in 1..Len(call.after_update) :
      call.after_update[i] =
        TAdd(call.pre.discriminator_weights[i],
             call.client_output.discriminator_weights_delta[i])

\* C4 amended: with plain SGD of learning rate lr the update step leaves
\* every discriminator weight at old + lr * delta, which is old + delta
\* when the learning rate is 1.0.
C4_SgdUpdate ==
  ServerReturned =>
    \A i \in 1..Len(call.after_update) :
      /\ call.after_update[i] =
           TAdd(call.pre.discriminator_weights[i],
                TScale(F(call.lr), call.client_output.discriminator_weights_delta[i]))
      /\ (call.lr = 1 =>
            call.after_update[i] =
              TAdd(call.pre.discriminator_weights[i],
                   call.client_output.discriminator_weights_delta[i]))

C4_Witness ==
  /\ ServerReturned
  /\ call.lr = 1
  /\ ~DeltaIsZero(call.client_output.discriminator_weights_delta)
  /\ call.after_update # call.pre.discriminator_weights

\* C5 as stated: every entry of client_output.counters is summed into the
\* counters, an entry being created when its key is absent, and the call
\* does not fail on an absent key.
C5_Original ==
  (ServerCalled
     /\ SameStructure(call.client_output.discriminator_weights_delta,
                      call.pre.discriminator_weights))
  => /\ call.ok
     /\ \A key \in ClientKeys(call.client_output.counters) :
          /\ key \in DOMAIN Returned.counters
          /\ Returned.counters[key] =
               (IF key \in DOMAIN call.pre.counters THEN call.pre.counters[key] ELSE 0)
                 + ClientCount(call.client_output.counters, key) + RoundIncrement(key)

\* C5 amended: when every key of client_output.counters is a key of
\* server_state.counters, each counter grows by the client's value (and by
\* what the round itself adds) and no key appears; when a key is absent
\* the call fails with KeyError, returns no state, and the caller's state
\* keeps its keys and values.
C5_CountersSummed ==
  (ServerCalled
     /\ SameStructure(call.client_output.discriminator_weights_delta,
                      call.pre.discriminator_weights))
  => IF ClientKeys(call.client_output.counters) \subseteq DOMAIN call.pre.counters
     THEN /\ call.ok
          /\ DOMAIN Returned.counters = DOMAIN call.pre.counters
          /\ \A key \in DOMAIN call.pre.counters :
               Returned.counters[key] =
                 call.pre.counters[key]
                   + ClientCount(call.client_output.counters, key) + RoundIncrement(key)
     ELSE /\ ~call.ok
          /\ call.error = "KeyError"
          /\ call.ret = 0
          /\ InputNow = call.pre

C5_Witness ==
  /\ ServerRaised
  /\ call.error = "KeyError"
  /\ "num_clients" \in ClientKeys(call.client_output.counters)
  /\ "num_clients" \notin DOMAIN InputNow.counters

\* C6: server_computation leaves its input as it was (counters keys and
\* values, both weight lists, aggregation_state), and what it returns is
\* another object whose counters is another dictionary.
C6_InputNotMutated ==
  ServerReturned =>
    /\ InputNow = call.pre
    /\ call.ret # server_state
    /\ objs[call.ret].counters # objs[server_state].counters

C6_Witness ==
  /\ ServerReturned
  /\ Returned.counters # call.pre.counters
  /\ Returned.generator_weights # call.pre.generator_weights
  /\ Returned.aggregation_state # call.pre.aggregation_state
  /\ InputNow = call.pre

\* C7: when the delta has not the structure (count and shapes) of the
\* discriminator's weights, server_computation fails with a structural
\* error, returns no state, and the caller's state is as before the call.
C7_StructureMismatch ==
  (ServerCalled
     /\ ~SameStructure(call.client_output.discriminator_weights_delta,
                       call.pre.discriminator_weights))
  => /\ ~call.ok
     /\ call.error = "ValueError"
     /\ call.ret = 0
     /\ InputNow = call.pre

C7_Witness ==
  /\ ServerRaised
  /\ call.error = "ValueError"
  /\ Len(call.client_output.discriminator_weights_delta)
       = Len(call.pre.discriminator_weights)
  /\ ~SameStructure(call.client_output.discriminator_weights_delta,
                    call.pre.discriminator_weights)
  /\ InputNow = call.pre

\* C8: the returned state's aggregation_state is the new_aggregation_state
\* argument whatever the state's own was, and the empty default () when
\* the argument is left out.
C8_AggregationState ==
  ServerReturned =>
    Returned.aggregation_state =
      (IF call.arg = "omitted" THEN EmptyAggregationState ELSE call.arg)

C8_Witness ==
  /\ ServerReturned
  /\ call.arg = "omitted"
  /\ call.pre.aggregation_state # EmptyAggregationState
  /\ Returned.aggregation_state = EmptyAggregationState

\* C9: a discriminator step leaves the generator's variables alone and a
\* generator step the discriminator's: after client_computation the
\* generator's weights are from_server.generator_weights, and the
\* discriminator_weights server_computation returns are those the update
\* step left, whatever the generator loop did after it.
C9_TargetNetworkOnly ==
  /\ ClientReturned => generator = call.from_server.generator_weights
  /\ ServerReturned => Returned.discriminator_weights = call.after_update

C9_Witness ==
  /\ ServerReturned
  /\ call.gen_sum > 0
  /\ Returned.generator_weights # call.pre.generator_weights
  /\ call.after_update # call.pre.discriminator_weights
  /\ Returned.discriminator_weights = call.after_update

\* C10: the client's num_discriminator_train_examples is the sum over the
\* paired batches of the smaller batch size, with or without a non-finite
\* delta, and the server's counter grows by it even when the update was
\* zeroed and weighs 0.0.
C10_ExamplesCounted ==
  /\ ClientReturned =>
       call.output.counters = << <<"num_discriminator_train_examples", call.paired>> >>
  /\ ServerReturned =>
       Returned.counters["num_discriminator_train_examples"] =
         call.pre.counters["num_discriminator_train_examples"]
           + ClientCount(call.client_output.counters, "num_discriminator_train_examples")

C10_Witness ==
  /\ ServerReturned
  /\ call.client_output.update_weight = F(0)
  /\ DeltaIsZero(call.client_output.discriminator_weights_delta)
  /\ ClientCount(call.client_output.counters, "num_discriminator_train_examples") > 1
  /\ Returned.counters["num_discriminator_train_examples"]
       > call.pre.counters["num_discriminator_train_examples"]

=============================================================================
